---- MODULE Spec2Model ----
(***************************************************************************)
(* State-machine model of the selfservices front end:                      *)
(*   - ToastService (core/notifications/services/toast.service.ts)         *)
(*   - the users feature store: usersReducer and UsersEffects              *)
(*   - KeycloakService, its token refresh, and the route guards            *)
(*   - keycloakInterceptor                                                 *)
(*   - the error boundary: ErrorService, ErrorLoggingService,              *)
(*     errorInterceptor and GlobalErrorHandler                             *)
(* Each subsystem has its own specification (SpecToast, SpecUsers,         *)
(* SpecAuth, SpecGuard, SpecHttp, SpecErrors, SpecBuffer); the variables   *)
(* of the other subsystems stay at their initial values.                   *)
(***************************************************************************)
EXTENDS Integers, Sequences, FiniteSets, TLC

\* ------------------------------------------------------------------ bounds
\* number of show() calls in a behaviour
MaxShows == 2
\* number of setTimeout() calls in a behaviour
MaxTimers == 3
\* largest maxToasts value passed to configure()
MaxCap == 2
\* number of loadUsers / addUser / updateUser / deleteUser dispatches
MaxDispatch == 3
\* number of keycloakInstance.updateToken() calls in a behaviour
MaxRefresh == 3
\* number of logout() calls made by components and by onAuthError
MaxLogouts == 2
\* number of outgoing requests in a behaviour
MaxRequests == 2
\* number of hooks provided under ERROR_LOGGING_HOOKS
MaxHooks == 2
\* number of failures the error boundaries log in a behaviour
MaxErrors == 2
\* number of logWithSeverity() calls in a behaviour
MaxLogs == 101
\* length of the endpoint strings given to buildUrl, in symbols
MaxPathLen == 4
MaxUrlLen == 2
MaxHops == 5

\* ------------------------------------------------------- program constants
\* DEFAULT_TOAST_CONFIG.maxToasts
DefaultMaxToasts == 5
\* DEFAULT_TOAST_CONFIG.defaultDuration
DefaultDuration == 5000
\* TOAST_DURATIONS.long
DurationLong == 8000
\* TOAST_DURATIONS.persistent
DurationPersistent == 0

\* HttpErrorCode.BadRequest
BadRequest == 400
\* HttpErrorCode.Unauthorized
Unauthorized == 401
\* HttpErrorCode.Forbidden
Forbidden == 403
\* HttpErrorCode.UnprocessableEntity
UnprocessableEntity == 422
\* ErrorLoggingService.maxBufferSize
maxBufferSize == 100

\* options?.duration left undefined
NoDuration == -1

NotificationTypes == {"success", "error", "warning", "info"}

\* the values of options.duration the callers pass: none, or persistent
OptDurations == {NoDuration, DurationPersistent}

\* an id that no show() call ever returned
UnknownId == 0

VARIABLES
  \* ---- ToastService
  notifications,   \* _notifications: sequence of records, newest first
  config,          \* _config: [maxToasts, defaultDuration]
  timeoutMap,      \* timeoutMap: notification id -> timer handle
  timers,          \* pending setTimeout callbacks: set of [h, id, delay]
  nextId,          \* generateId(): the next fresh notification id
  nextTimer,       \* the next handle setTimeout returns
  \* ---- users feature store
  usersState,      \* the slice: [users, selectedUserId, isLoading, error]
  inner,           \* per effect: the inner observables switchMap is subscribed to
  nextSeq,         \* history: number the next triggering action gets
  trig,            \* history: per triggering action [kind, outcomes, result,
                   \*   superseded, present (its id was in users at dispatch)]
  usersFrom,       \* history: the loadUsers whose response was reduced last (0: none)
  \* ---- KeycloakService and the page it runs in
  enableAuth,      \* environment.enableAuth of the build
  keycloakInstance,\* "undefined" or "created"
  kc,              \* the adapter's fields: [authenticated, hasToken, token, realmRoles]
  isAuthenticatedSubject,  \* value of the BehaviorSubject
  userSubject,     \* Null or "user"
  initPc,          \* APP_INITIALIZER: "idle", "handshake" or "done"
  profilePending,  \* keycloakInstance.loadUserProfile() not settled yet
  intervalOn,      \* the setInterval of setupTokenRefresh is registered
  handlersSet,     \* onTokenExpired / onAuthError / onAuthLogout are assigned
  refreshInFlight, \* keycloakInstance.updateToken() calls not settled yet
  redirecting,     \* a provider login/logout redirect has been requested
  pageAlive,       \* the page has not been unloaded by a redirect
  initOutcome,     \* history: how the handshake ended and what init() returned
  refreshRequests, \* history: number of keycloakInstance.updateToken() calls
  refreshRejected, \* history: number of them that rejected
  logoutCalls,     \* history: number of KeycloakService.logout() runs
  \* ---- route guards
  nav,             \* the last guard evaluation, with the session it saw
  \* ---- keycloakInterceptor
  excludedUrls,    \* EXCLUDED_URLS of the build
  requests,        \* the intercepted requests: what the interceptor saw and did
  nextReq,         \* history: number the next outgoing request gets
  \* ---- error boundary: ErrorLoggingService, errorInterceptor, GlobalErrorHandler
  hooks,           \* the injected ERROR_LOGGING_HOOKS: sequence of hooks
  errorBuffer,     \* errorBuffer: sequence of entries, each the number of its log() call
  logCount,        \* history: number of log() calls so far
  clearedAt,       \* history: logCount at the last clearBuffer()
  lastLog,         \* history: what the last log() call did
  boundary,        \* history: the last failure a boundary handled and what it emitted
  \* ---- BaseApiService
  apiCall,         \* history: the last endpoint given to buildUrl and the URL it built
  \* ---- LayoutService, theme slice of the store, browser storage
  layout,          \* the signals of LayoutService
  themeState,      \* the theme slice of the store
  localStorage,    \* the browser's localStorage: key -> string, Null when absent
  themeChange,     \* history: who changed the theme last
  \* ---- Router over the route table
  router           \* the navigation in progress: the URLs it went through, the route activated

toastVars == <<notifications, config, timeoutMap, timers, nextId, nextTimer>>

usersVars == <<usersState, inner, nextSeq, trig, usersFrom>>

authVars == <<initOutcome, enableAuth, keycloakInstance, kc, isAuthenticatedSubject, userSubject,
              initPc, profilePending, intervalOn, handlersSet, refreshInFlight,
              redirecting, pageAlive, refreshRequests, refreshRejected, logoutCalls>>

httpVars == <<excludedUrls, requests, nextReq>>

errVars == <<hooks, errorBuffer, logCount, clearedAt, lastLog, boundary>>

appVars == <<apiCall, layout, themeState, localStorage, themeChange, router>>

vars == <<toastVars, usersVars, authVars, nav, httpVars, errVars, appVars>>

notToastVars == <<usersVars, authVars, nav, httpVars, errVars, appVars>>
notUsersVars == <<toastVars, authVars, nav, httpVars, errVars, appVars>>
notAuthVars == <<toastVars, usersVars, nav, httpVars, errVars, appVars>>
notErrVars == <<toastVars, usersVars, authVars, nav, httpVars, appVars>>
notAppVars == <<toastVars, usersVars, authVars, nav, httpVars, errVars>>

\* ------------------------------------------------------------ ToastService

\* Map.set / Map.delete on a function whose domain is the set of keys
MapSet(m, k, v) == [x \in (DOMAIN m) \cup {k} |-> IF x = k THEN v ELSE m[x]]
MapDelete(m, k) == [x \in (DOMAIN m) \ {k} |-> m[x]]

\* The mutable part of the service that the private helpers work on.
ToastState == [notifications |-> notifications, timeoutMap |-> timeoutMap,
               timers |-> timers, nextTimer |-> nextTimer]

\* Array.prototype.filter
RECURSIVE FilterOutId(_, _)
FilterOutId(s, id) ==
  IF s = << >> THEN << >>
  ELSE IF Head(s).id = id THEN FilterOutId(Tail(s), id)
       ELSE <<Head(s)>> \o FilterOutId(Tail(s), id)

\* private clearTimeout(id): cancels the handle the map holds and drops the entry
clearTimeout(ts, id) ==
  IF id \in DOMAIN ts.timeoutMap
  THEN [ts EXCEPT !.timers = {t \in ts.timers : t.h # ts.timeoutMap[id]},
                  !.timeoutMap = MapDelete(ts.timeoutMap, id)]
  ELSE ts

\* private scheduleRemoval(id, duration): setTimeout, then timeoutMap.set
scheduleRemoval(ts, id, duration) ==
  [ts EXCEPT !.timers = ts.timers \cup {[h |-> ts.nextTimer, id |-> id, delay |-> duration]},
             !.timeoutMap = MapSet(ts.timeoutMap, id, ts.nextTimer),
             !.nextTimer = ts.nextTimer + 1]

\* dismiss(id): clearTimeout(id), then the list is filtered by id
dismissSplice(ts, id) ==
  LET c == clearTimeout(ts, id)
  IN IF \E i \in 1..Len(c.notifications) : c.notifications[i].id = id
     THEN [c EXCEPT !.notifications = FilterOutId(c.notifications, id)]
     ELSE [c EXCEPT !.notifications = SubSeq(c.notifications, 1, Len(c.notifications) - 1)]
dismiss(ts, id) ==
  LET c == clearTimeout(ts, id)
  IN [c EXCEPT !.notifications = FilterOutId(c.notifications, id)]

\* the update callback of show(): prepend, then pop one record when over capacity
ShowUpdate(ts, cfg, n) ==
  LET updated == <<n>> \o ts.notifications
  IN IF Len(updated) > cfg.maxToasts
     THEN LET removed == updated[Len(updated)]
              c == clearTimeout(ts, removed.id)
          IN [c EXCEPT !.notifications = SubSeq(updated, 1, Len(updated) - 1)]
     ELSE [ts EXCEPT !.notifications = updated]

\* options?.duration ?? config.defaultDuration
EffectiveDuration(cfg, optDuration) ==
  IF optDuration = NoDuration THEN cfg.defaultDuration ELSE optDuration

\* show(type, message, options)
show(ts, cfg, id, type, optDuration) ==
  LET n == [id |-> id, type |-> type, duration |-> EffectiveDuration(cfg, optDuration)]
      u == ShowUpdate(ts, cfg, n)
  IN IF n.duration > 0 THEN scheduleRemoval(u, id, n.duration) ELSE u

\* the duration error() passes on: { duration: TOAST_DURATIONS.long, ...options }
ErrorOptDuration(optDuration) ==
  IF optDuration = NoDuration THEN DurationLong ELSE optDuration

\* resume(id)
resume(ts, id) ==
  LET found == {i \in 1..Len(ts.notifications) : ts.notifications[i].id = id}
  IN IF found # {} /\ ts.notifications[CHOOSE i \in found : TRUE].duration > 0
     THEN scheduleRemoval(ts, id, ts.notifications[CHOOSE i \in found : TRUE].duration \div 2)
     ELSE ts

\* dismissAll(): clearTimeout for every key of the map, then the list is emptied
dismissAll(ts) ==
  [ts EXCEPT !.timers = {t \in ts.timers :
                            \A k \in DOMAIN ts.timeoutMap : ts.timeoutMap[k] # t.h},
             !.timeoutMap = << >>,
             !.notifications = << >>]

\* writes a ToastState back to the variables
SetToast(ts) ==
  /\ notifications' = ts.notifications
  /\ timeoutMap' = ts.timeoutMap
  /\ timers' = ts.timers
  /\ nextTimer' = ts.nextTimer

\* a show() call with the bookkeeping of the fresh id
DoShow(type, optDuration) ==
  LET ts == show(ToastState, config, nextId, type, optDuration)
  IN /\ nextId <= MaxShows
     /\ ts.nextTimer <= MaxTimers + 1
     /\ SetToast(ts)
     /\ nextId' = nextId + 1
     /\ UNCHANGED config

ToastShow ==
  /\ \E type \in NotificationTypes, d \in OptDurations : DoShow(type, d)
  /\ UNCHANGED notToastVars
ToastSuccess ==
  /\ \E d \in OptDurations : DoShow("success", d)
  /\ UNCHANGED notToastVars
ToastError ==
  /\ \E d \in OptDurations : DoShow("error", ErrorOptDuration(d))
  /\ UNCHANGED notToastVars
ToastWarning ==
  /\ \E d \in OptDurations : DoShow("warning", d)
  /\ UNCHANGED notToastVars
ToastInfo ==
  /\ \E d \in OptDurations : DoShow("info", d)
  /\ UNCHANGED notToastVars

\* the ids a caller can hold: every id returned so far, and one never returned
KnownIds == {UnknownId} \cup 1..(nextId - 1)

ToastDismiss ==
  \E id \in KnownIds :
    /\ SetToast(dismiss(ToastState, id))
    /\ UNCHANGED <<config, nextId, notToastVars>>

ToastDismissAll ==
  /\ SetToast(dismissAll(ToastState))
  /\ UNCHANGED <<config, nextId, notToastVars>>

ToastPause ==
  \E id \in KnownIds :
    /\ SetToast(clearTimeout(ToastState, id))
    /\ UNCHANGED <<config, nextId, notToastVars>>

ToastResume ==
  \E id \in KnownIds :
    LET ts == resume(ToastState, id)
    IN /\ ts.nextTimer <= MaxTimers + 1
       /\ SetToast(ts)
       /\ UNCHANGED <<config, nextId, notToastVars>>

\* configure(partial): the callers change the capacity
ToastConfigure ==
  /\ \E m \in 0..MaxCap : config' = [config EXCEPT !.maxToasts = m]
  /\ UNCHANGED <<notifications, timeoutMap, timers, nextId, nextTimer, notToastVars>>

\* a pending setTimeout callback runs: () => this.dismiss(id)
TimerFire ==
  \E t \in timers :
    /\ SetToast(dismiss([ToastState EXCEPT !.timers = timers \ {t}], t.id))
    /\ UNCHANGED <<config, nextId, notToastVars>>

ToastInit ==
  /\ notifications = << >>
  /\ config = [maxToasts |-> DefaultMaxToasts, defaultDuration |-> DefaultDuration]
  /\ timeoutMap = << >>
  /\ timers = {}
  /\ nextId = 1
  /\ nextTimer = 1

\* ------------------------------------------------------ users feature store

Null == "null"

UserIds == {"1", "2"}
UserNames == {"John", "Jane"}
User == [id : UserIds, name : UserNames]

\* the lists a getUsers() response carries; the last one is the list of the stub
UserLists == {<< >>,
              <<[id |-> "2", name |-> "John"]>>,
              <<[id |-> "1", name |-> "John"], [id |-> "2", name |-> "Jane"]>>}

\* error.message of a failed call
ErrorMessages == {"Http failure response"}

EffectKinds == {"load", "add", "update", "delete"}

\* initialUsersState
initialUsersState ==
  [users |-> << >>, selectedUserId |-> Null, isLoading |-> FALSE, error |-> Null]

\* state.users.filter((u) => u.id !== userId)
RECURSIVE FilterUsers(_, _)
FilterUsers(us, userId) ==
  IF us = << >> THEN << >>
  ELSE IF Head(us).id = userId THEN FilterUsers(Tail(us), userId)
       ELSE <<Head(us)>> \o FilterUsers(Tail(us), userId)

\* state.users.map((u) => (u.id === user.id ? user : u))
MapUsers(us, user) ==
  [i \in 1..Len(us) |-> IF us[i].id = user.id THEN user ELSE us[i]]

\* the on(...) handlers shared by loadUsers, addUser, updateUser and deleteUser
ReduceRequest(state) == [state EXCEPT !.isLoading = TRUE, !.error = Null]

\* the on(...Failure) handlers
ReduceFailure(state, error) == [state EXCEPT !.isLoading = FALSE, !.error = error]

\* on(UsersActions.deleteUser, ...)
ReduceDeleteUser(state, userId) == ReduceRequest(state)

\* on(UsersActions.deleteUserFailure, ...)
ReduceDeleteUserFailure(state, error) == ReduceFailure(state, error)

\* on(UsersActions.deleteUserSuccess, ...)
ReduceDeleteUserSuccessKeepSelection(state, userId) ==
  [state EXCEPT !.users = FilterUsers(state.users, userId), !.isLoading = FALSE]
ReduceDeleteUserSuccess(state, userId) ==
  [state EXCEPT !.users = FilterUsers(state.users, userId),
                !.selectedUserId = IF state.selectedUserId = userId
                                   THEN Null ELSE state.selectedUserId,
                !.isLoading = FALSE]

\* a reducer whose loadUsersSuccess handler keeps the error of the state
usersReducerKeepError(state, action) ==
  CASE action.type = "loadUsers" -> ReduceRequest(state)
    [] action.type = "loadUsersSuccess" ->
         [state EXCEPT !.users = action.users, !.isLoading = FALSE]
    [] action.type = "loadUsersFailure" -> ReduceFailure(state, action.error)
    [] action.type = "selectUser" -> [state EXCEPT !.selectedUserId = action.userId]
    [] action.type = "clearSelection" -> [state EXCEPT !.selectedUserId = Null]
    [] action.type = "addUser" -> ReduceRequest(state)
    [] action.type = "addUserSuccess" ->
         [state EXCEPT !.users = state.users \o <<action.user>>, !.isLoading = FALSE]
    [] action.type = "addUserFailure" -> ReduceFailure(state, action.error)
    [] action.type = "updateUser" -> ReduceRequest(state)
    [] action.type = "updateUserSuccess" ->
         [state EXCEPT !.users = MapUsers(state.users, action.user), !.isLoading = FALSE]
    [] action.type = "updateUserFailure" -> ReduceFailure(state, action.error)
    [] action.type = "deleteUser" -> ReduceDeleteUser(state, action.userId)
    [] action.type = "deleteUserSuccess" ->
         ReduceDeleteUserSuccess(state, action.userId)
    [] action.type = "deleteUserFailure" ->
         ReduceDeleteUserFailure(state, action.error)
    [] OTHER -> state

\* usersReducer: createReducer(initialUsersState, on(...), ...)
usersReducer(state, action) ==
  CASE action.type = "loadUsers" -> ReduceRequest(state)
    [] action.type = "loadUsersSuccess" ->
         [state EXCEPT !.users = action.users, !.isLoading = FALSE, !.error = Null]
    [] action.type = "loadUsersFailure" -> ReduceFailure(state, action.error)
    [] action.type = "selectUser" -> [state EXCEPT !.selectedUserId = action.userId]
    [] action.type = "clearSelection" -> [state EXCEPT !.selectedUserId = Null]
    [] action.type = "addUser" -> ReduceRequest(state)
    [] action.type = "addUserSuccess" ->
         [state EXCEPT !.users = state.users \o <<action.user>>, !.isLoading = FALSE]
    [] action.type = "addUserFailure" -> ReduceFailure(state, action.error)
    [] action.type = "updateUser" -> ReduceRequest(state)
    [] action.type = "updateUserSuccess" ->
         [state EXCEPT !.users = MapUsers(state.users, action.user), !.isLoading = FALSE]
    [] action.type = "updateUserFailure" -> ReduceFailure(state, action.error)
    [] action.type = "deleteUser" -> ReduceDeleteUser(state, action.userId)
    [] action.type = "deleteUserSuccess" ->
         ReduceDeleteUserSuccess(state, action.userId)
    [] action.type = "deleteUserFailure" ->
         ReduceDeleteUserFailure(state, action.error)
    [] OTHER -> state

\* selectSelectedUser: users.find((user) => user.id === selectedId) || null;
\* null is the record whose fields are null
selectSelectedUser(state) ==
  LET found == {i \in 1..Len(state.users) : state.users[i].id = state.selectedUserId}
  IN IF found = {} THEN [id |-> Null, name |-> Null]
     ELSE state.users[CHOOSE i \in found : \A j \in found : i <= j]

\* switchMap(project): subscribing to the new inner observable unsubscribes
\* from the one still running
mergeMapInner(inn, kind, req) == [inn EXCEPT ![kind] = inn[kind] \cup {req}]
switchMapInner(inn, kind, req) == [inn EXCEPT ![kind] = {req}]

\* of(value).pipe(map(...), catchError(...)): one emission, then completion
InnerNeverCompletes(inn, kind, req) == inn
InnerComplete(inn, kind, req) == [inn EXCEPT ![kind] = inn[kind] \ {req}]

\* the success action an effect maps the value of its inner observable to
SuccessAction(req, value) ==
  CASE req.kind = "load" -> [type |-> "loadUsersSuccess", users |-> value]
    [] req.kind = "add" -> [type |-> "addUserSuccess", user |-> value]
    [] req.kind = "update" -> [type |-> "updateUserSuccess", user |-> value]
    [] req.kind = "delete" -> [type |-> "deleteUserSuccess", userId |-> req.arg]

\* the failure action catchError maps an error to
FailureAction(req, message) ==
  CASE req.kind = "load" -> [type |-> "loadUsersFailure", error |-> message]
    [] req.kind = "add" -> [type |-> "addUserFailure", error |-> message]
    [] req.kind = "update" -> [type |-> "updateUserFailure", error |-> message]
    [] req.kind = "delete" -> [type |-> "deleteUserFailure", error |-> message]

\* the values the call behind a request can emit: the stubs emit their argument,
\* getUsers() emits a list
ResponseValues(req) == IF req.kind = "load" THEN UserLists ELSE {req.arg}

\* store.dispatch of a triggering action: the reducer runs, then the effect
\* subscribes to the call
DispatchTrigger(kind, action, arg) ==
  LET req == [seq |-> nextSeq, kind |-> kind, arg |-> arg]
  IN /\ nextSeq <= MaxDispatch
     /\ usersState' = usersReducer(usersState, action)
     /\ inner' = switchMapInner(inner, kind, req)
     /\ trig' = [t \in 1..nextSeq |->
                   IF t = nextSeq
                   THEN [kind |-> kind, outcomes |-> 0, result |-> "none",
                         superseded |-> FALSE,
                         present |-> IF kind = "delete"
                                     THEN \E i \in 1..Len(usersState.users) :
                                             usersState.users[i].id = arg
                                     ELSE FALSE]
                   ELSE IF \E r \in inner[kind] : r.seq = t
                        THEN [trig[t] EXCEPT !.superseded = TRUE]
                        ELSE trig[t]]
     /\ nextSeq' = nextSeq + 1
     /\ UNCHANGED <<usersFrom, notUsersVars>>

LoadUsers == DispatchTrigger("load", [type |-> "loadUsers"], Null)

AddUser ==
  \E u \in User : DispatchTrigger("add", [type |-> "addUser", user |-> u], u)

UpdateUser ==
  \E u \in User : DispatchTrigger("update", [type |-> "updateUser", user |-> u], u)

DeleteUser ==
  \E id \in UserIds :
    DispatchTrigger("delete", [type |-> "deleteUser", userId |-> id], id)

SelectUser ==
  \E id \in UserIds :
    /\ usersState' = usersReducer(usersState, [type |-> "selectUser", userId |-> id])
    /\ UNCHANGED <<inner, nextSeq, trig, usersFrom, notUsersVars>>

ClearSelection ==
  /\ usersState' = usersReducer(usersState, [type |-> "clearSelection"])
  /\ UNCHANGED <<inner, nextSeq, trig, usersFrom, notUsersVars>>

\* the call of a subscribed inner observable emits its value: map(...) turns it
\* into the success action, which is dispatched and reduced
EffectSuccess ==
  \E kind \in EffectKinds : \E req \in inner[kind] : \E v \in ResponseValues(req) :
    /\ usersState' = usersReducer(usersState, SuccessAction(req, v))
    /\ inner' = InnerComplete(inner, kind, req)
    /\ trig' = [trig EXCEPT ![req.seq].outcomes = @ + 1, ![req.seq].result = "success"]
    /\ usersFrom' = IF kind = "load" THEN req.seq ELSE usersFrom
    /\ UNCHANGED <<nextSeq, notUsersVars>>

\* the call errors: catchError(...) turns the error into the failure action
EffectFailure ==
  \E kind \in EffectKinds : \E req \in inner[kind] : \E m \in ErrorMessages :
    /\ usersState' = usersReducer(usersState, FailureAction(req, m))
    /\ inner' = InnerComplete(inner, kind, req)
    /\ trig' = [trig EXCEPT ![req.seq].outcomes = @ + 1, ![req.seq].result = "failure"]
    /\ UNCHANGED <<nextSeq, usersFrom, notUsersVars>>

UsersInit ==
  /\ usersState = initialUsersState
  /\ inner = [k \in EffectKinds |-> {}]
  /\ nextSeq = 1
  /\ trig = << >>
  /\ usersFrom = 0


\* --------------------------------------------------------- KeycloakService

Roles == {"A", "B", "C"}

\* window.location.origin
Origin == "https://app"

\* keycloakInstance.token is undefined
NoToken == 0

\* the access token the handshake returns; each refresh that replaces the
\* token yields the next number
FirstToken == 1

\* the adapter before init() has resolved, and after clearToken()
KcSignedOut == [authenticated |-> FALSE, hasToken |-> FALSE, token |-> NoToken,
                realmRoles |-> {}]

\* getToken(): this.keycloakInstance?.token
getToken == IF keycloakInstance = "created" THEN kc.token ELSE NoToken

\* isLoggedIn(): this.keycloakInstance?.authenticated ?? false
isLoggedIn == keycloakInstance = "created" /\ kc.authenticated

\* hasRole(role): false without an instance, else keycloakInstance.hasRealmRole(role)
hasRole(role) == keycloakInstance = "created" /\ role \in kc.realmRoles

\* hasAnyRole(roles): roles.some((role) => this.hasRole(role))
hasAnyRoleEvery(roles) == \A i \in 1..Len(roles) : hasRole(roles[i])
hasAnyRole(roles) == \E i \in 1..Len(roles) : hasRole(roles[i])

\* hasAllRoles(roles): roles.every((role) => this.hasRole(role))
hasAllRolesSome(roles) == \E i \in 1..Len(roles) : hasRole(roles[i])
hasAllRoles(roles) == \A i \in 1..Len(roles) : hasRole(roles[i])

\* getUserRoles()
getUserRoles == IF keycloakInstance = "created" /\ kc.hasToken THEN kc.realmRoles ELSE {}

\* logout(): with an instance, both subjects are cleared and the provider's
\* logout redirect is requested (callers below only reach it with an instance)
LogoutEffects ==
  /\ isAuthenticatedSubject' = FALSE
  /\ userSubject' = Null
  /\ redirecting' = TRUE
  /\ logoutCalls' = logoutCalls + 1

\* initializeKeycloak(): skips init() when auth is disabled; init() creates the
\* instance and starts the check-sso handshake
InitializeKeycloak ==
  /\ pageAlive /\ initPc = "idle"
  /\ IF enableAuth
     THEN /\ keycloakInstance' = "created"
          /\ initPc' = "handshake"
     ELSE /\ initPc' = "done"
          /\ UNCHANGED keycloakInstance
  /\ UNCHANGED <<notAuthVars, initOutcome, enableAuth, kc, isAuthenticatedSubject, userSubject, profilePending,
                 intervalOn, handlersSet, refreshInFlight, redirecting, pageAlive,
                 refreshRequests, refreshRejected, logoutCalls>>

\* keycloakInstance.init() resolves: the subject takes the result; when
\* authenticated, loadUserProfile() is started and setupTokenRefresh() registers
\* the interval and the handlers
InitResolve ==
  /\ pageAlive /\ initPc = "handshake"
  /\ \E authenticated \in BOOLEAN, roles \in SUBSET Roles :
       /\ kc' = IF authenticated
                THEN [authenticated |-> TRUE, hasToken |-> TRUE, token |-> FirstToken,
                      realmRoles |-> roles]
                ELSE KcSignedOut
       /\ isAuthenticatedSubject' = authenticated
       /\ profilePending' = authenticated
       /\ intervalOn' = authenticated
       /\ handlersSet' = authenticated
  /\ initPc' = "done"
  /\ initOutcome' = [handshake |-> "resolved",
                     returned |-> IF isAuthenticatedSubject' THEN "true" ELSE "false"]
  /\ UNCHANGED <<notAuthVars, enableAuth, keycloakInstance, userSubject, refreshInFlight, redirecting,
                 pageAlive, refreshRequests, refreshRejected, logoutCalls>>

\* the catch block of init(): console.error, return false
initCatchRethrow == [handshake |-> "rejected", returned |-> "throw"]
initCatch == [handshake |-> "rejected", returned |-> "false"]

\* keycloakInstance.init() rejects: logged, init() returns false
InitReject ==
  /\ pageAlive /\ initPc = "handshake"
  /\ initPc' = "done"
  /\ initOutcome' = initCatch
  /\ UNCHANGED <<notAuthVars, enableAuth, keycloakInstance, kc, isAuthenticatedSubject, userSubject,
                 profilePending, intervalOn, handlersSet, refreshInFlight, redirecting,
                 pageAlive, refreshRequests, refreshRejected, logoutCalls>>

\* loadUserProfile(): the profile arrives and userSubject takes the user, or the
\* call fails and is logged
ProfileSettle ==
  /\ pageAlive /\ profilePending
  /\ profilePending' = FALSE
  /\ \/ userSubject' = "user"
     \/ UNCHANGED userSubject
  /\ UNCHANGED <<notAuthVars, initOutcome, enableAuth, keycloakInstance, kc, isAuthenticatedSubject, initPc,
                 intervalOn, handlersSet, refreshInFlight, redirecting, pageAlive,
                 refreshRequests, refreshRejected, logoutCalls>>

\* updateToken(minValidity) up to its await: without an instance it returns
\* false, else keycloakInstance.updateToken(minValidity) is called
UpdateTokenCall ==
  /\ refreshRequests < MaxRefresh
  /\ IF keycloakInstance = "created"
     THEN /\ refreshInFlight' = refreshInFlight + 1
          /\ refreshRequests' = refreshRequests + 1
     ELSE UNCHANGED <<refreshInFlight, refreshRequests>>

\* the setInterval callback of setupTokenRefresh: this.updateToken(70)
IntervalTick ==
  /\ pageAlive /\ intervalOn
  /\ UpdateTokenCall
  /\ UNCHANGED <<notAuthVars, initOutcome, enableAuth, keycloakInstance, kc, isAuthenticatedSubject, userSubject,
                 initPc, profilePending, intervalOn, handlersSet, redirecting, pageAlive,
                 refreshRejected, logoutCalls>>

\* keycloakInstance.onTokenExpired: this.updateToken(30)
TokenExpired ==
  /\ pageAlive /\ handlersSet /\ kc.hasToken
  /\ UpdateTokenCall
  /\ UNCHANGED <<notAuthVars, initOutcome, enableAuth, keycloakInstance, kc, isAuthenticatedSubject, userSubject,
                 initPc, profilePending, intervalOn, handlersSet, redirecting, pageAlive,
                 refreshRejected, logoutCalls>>

\* keycloakInstance.updateToken() resolves, with the token replaced (refreshed)
\* or still valid: updateToken returns true
RefreshResolve ==
  /\ pageAlive /\ refreshInFlight > 0 /\ kc.hasToken
  /\ refreshInFlight' = refreshInFlight - 1
  /\ \E refreshed \in BOOLEAN :
       kc' = IF refreshed THEN [kc EXCEPT !.token = @ + 1] ELSE kc
  /\ UNCHANGED <<notAuthVars, initOutcome, enableAuth, keycloakInstance, isAuthenticatedSubject, userSubject,
                 initPc, profilePending, intervalOn, handlersSet, redirecting, pageAlive,
                 refreshRequests, refreshRejected, logoutCalls>>

\* keycloakInstance.updateToken() rejects: the adapter may have dropped its
\* token first (which runs onAuthLogout); the catch block logs and calls logout()
RefreshReject ==
  /\ pageAlive /\ refreshInFlight > 0
  /\ refreshInFlight' = refreshInFlight - 1
  /\ refreshRejected' = refreshRejected + 1
  /\ \/ kc' = KcSignedOut
     \/ /\ kc.hasToken
        /\ UNCHANGED kc
  /\ LogoutEffects
  /\ UNCHANGED <<notAuthVars, initOutcome, enableAuth, keycloakInstance, initPc, profilePending, intervalOn,
                 handlersSet, pageAlive, refreshRequests>>

\* a component calls logout() (header menu); it throws without an instance
UserLogout ==
  /\ pageAlive /\ keycloakInstance = "created" /\ initPc = "done"
  /\ logoutCalls < MaxLogouts
  /\ LogoutEffects
  /\ UNCHANGED <<notAuthVars, initOutcome, enableAuth, keycloakInstance, kc, initPc, profilePending, intervalOn,
                 handlersSet, refreshInFlight, pageAlive, refreshRequests,
                 refreshRejected>>

\* keycloakInstance.onAuthError: this.logout()
AuthError ==
  /\ pageAlive /\ handlersSet
  /\ logoutCalls < MaxLogouts
  /\ LogoutEffects
  /\ UNCHANGED <<notAuthVars, initOutcome, enableAuth, keycloakInstance, kc, initPc, profilePending, intervalOn,
                 handlersSet, refreshInFlight, pageAlive, refreshRequests,
                 refreshRejected>>

\* keycloakInstance.onAuthLogout: both subjects are cleared
AuthLogout ==
  /\ pageAlive /\ handlersSet /\ kc.hasToken
  /\ kc' = KcSignedOut
  /\ isAuthenticatedSubject' = FALSE
  /\ userSubject' = Null
  /\ UNCHANGED <<notAuthVars, initOutcome, enableAuth, keycloakInstance, initPc, profilePending, intervalOn,
                 handlersSet, refreshInFlight, redirecting, pageAlive, refreshRequests,
                 refreshRejected, logoutCalls>>

\* the browser follows the requested redirect: the page and its timers are gone
PageUnload ==
  /\ pageAlive /\ redirecting
  /\ pageAlive' = FALSE
  /\ UNCHANGED <<notAuthVars, initOutcome, enableAuth, keycloakInstance, kc, isAuthenticatedSubject, userSubject,
                 initPc, profilePending, intervalOn, handlersSet, refreshInFlight,
                 redirecting, refreshRequests, refreshRejected, logoutCalls>>

\* init() has not been called, or has not returned
NoInitOutcome == [handshake |-> "none", returned |-> "none"]

AuthInit ==
  /\ initOutcome = NoInitOutcome
  /\ enableAuth \in BOOLEAN
  /\ keycloakInstance = "undefined"
  /\ kc = KcSignedOut
  /\ isAuthenticatedSubject = FALSE
  /\ userSubject = Null
  /\ initPc = "idle"
  /\ profilePending = FALSE
  /\ intervalOn = FALSE
  /\ handlersSet = FALSE
  /\ refreshInFlight = 0
  /\ redirecting = FALSE
  /\ pageAlive = TRUE
  /\ refreshRequests = 0
  /\ refreshRejected = 0
  /\ logoutCalls = 0

\* ------------------------------------------------------------ route guards

\* state.url of the navigations
Urls == {"/users", "/admin"}

\* route.data['roles']
RoleLists == {<< >>, <<"A">>, <<"A", "B">>}

\* route.data: roles may be absent; requireAll is true, false or absent
RouteData ==
  {[hasRoles |-> FALSE, roles |-> << >>, requireAll |-> "undefined"]}
    \cup {[hasRoles |-> TRUE, roles |-> r, requireAll |-> ra] :
            r \in RoleLists, ra \in {"true", "false", "undefined"}}

NoLogin == << >>

\* what a guard evaluation saw and did
Outcome(guard, url, data, result, login, navigate, evaluated, toast) ==
  [guard |-> guard, url |-> url, data |-> data,
   loggedIn |-> isLoggedIn, instance |-> keycloakInstance, userRoles |-> kc.realmRoles,
   result |-> result, login |-> login, navigate |-> navigate,
   evaluated |-> evaluated, toast |-> toast]

\* roleGuard(route, state)
roleGuard(url, data) ==
  IF ~isLoggedIn
  THEN IF keycloakInstance = "undefined"
       THEN Outcome("role", url, data, "throw", NoLogin, Null, FALSE, FALSE)
       ELSE Outcome("role", url, data, "deny", <<Origin, url>>, Null, FALSE, FALSE)
  ELSE IF ~data.hasRoles \/ Len(data.roles) = 0
  THEN Outcome("role", url, data, "allow", NoLogin, Null, FALSE, FALSE)
  ELSE LET requireAll == data.requireAll = "true"
           hasAccess == IF requireAll THEN hasAllRoles(data.roles)
                        ELSE hasAnyRole(data.roles)
       IN IF ~hasAccess
          THEN Outcome("role", url, data, "deny", NoLogin, "/unauthorized", TRUE, FALSE)
          ELSE Outcome("role", url, data, "allow", NoLogin, Null, TRUE, FALSE)

\* authGuard, the variant that calls keycloakService.login
authGuardKeycloak(url) ==
  IF isLoggedIn
  THEN Outcome("authKeycloak", url, Null, "allow", NoLogin, Null, FALSE, FALSE)
  ELSE IF keycloakInstance = "undefined"
  THEN Outcome("authKeycloak", url, Null, "throw", NoLogin, Null, FALSE, FALSE)
  ELSE Outcome("authKeycloak", url, Null, "deny", <<Origin, url>>, Null, FALSE, FALSE)

\* authGuard, the variant that shows a toast and returns the /auth/login UrlTree
authGuardToast(url) ==
  IF isLoggedIn
  THEN Outcome("authToast", url, Null, "allow", NoLogin, Null, FALSE, FALSE)
  ELSE Outcome("authToast", url, Null, "redirect", NoLogin, "/auth/login", FALSE, TRUE)

\* the router runs a guard once the initializer is done
RoleGuard ==
  /\ pageAlive /\ initPc = "done"
  /\ \E url \in Urls, data \in RouteData :
       /\ nav' = roleGuard(url, data)
       /\ redirecting' = (redirecting \/ nav'.login # NoLogin)
  /\ UNCHANGED <<usersVars, initOutcome, enableAuth, keycloakInstance, kc,
                 isAuthenticatedSubject, userSubject, initPc, profilePending, intervalOn,
                 handlersSet, refreshInFlight, pageAlive, refreshRequests, refreshRejected,
                 logoutCalls, httpVars, errVars, appVars>>
  /\ UNCHANGED toastVars

AuthGuardKeycloak ==
  /\ pageAlive /\ initPc = "done"
  /\ \E url \in Urls :
       /\ nav' = authGuardKeycloak(url)
       /\ redirecting' = (redirecting \/ nav'.login # NoLogin)
  /\ UNCHANGED <<usersVars, initOutcome, enableAuth, keycloakInstance, kc,
                 isAuthenticatedSubject, userSubject, initPc, profilePending, intervalOn,
                 handlersSet, refreshInFlight, pageAlive, refreshRequests, refreshRejected,
                 logoutCalls, httpVars, errVars, appVars>>
  /\ UNCHANGED toastVars

AuthGuardToast ==
  /\ pageAlive /\ initPc = "done"
  /\ \E url \in Urls :
       /\ nav' = authGuardToast(url)
       /\ IF nav'.toast
          THEN DoShow("warning", NoDuration)
          ELSE UNCHANGED toastVars
  /\ UNCHANGED <<usersVars, initOutcome, enableAuth, keycloakInstance, kc,
                 isAuthenticatedSubject, userSubject, initPc, profilePending, intervalOn,
                 handlersSet, refreshInFlight, pageAlive, refreshRequests, refreshRejected,
                 logoutCalls, httpVars, errVars, appVars>>
  /\ UNCHANGED redirecting

NoNav == [guard |-> "none"]

\* ------------------------------------------------------ keycloakInterceptor

\* updateToken(30) in the interceptor
InterceptorMinValidity == 30

\* no updateToken call was made for the request
NoRefresh == -1

\* EXCLUDED_URLS as shipped: an empty array
EXCLUDED_URLS == << >>

\* URLs are sequences of path segments; the exclusion lists a build is
\* configured with: the shipped one, and one holding the entry the source
\* gives as an example
ExcludedUrlLists == {EXCLUDED_URLS, << <<"public", "api">> >>}

\* req.url of the outgoing requests
RequestUrls == {<<"api", "users">>, <<"v1", "public", "api">>}

\* url.includes(excludedUrl): excludedUrl occurs in url as a contiguous part
includes(url, excludedUrl) ==
  \E i \in 0..(Len(url) - Len(excludedUrl)) :
    SubSeq(url, i + 1, i + Len(excludedUrl)) = excludedUrl

\* shouldExclude(url): EXCLUDED_URLS.some((excludedUrl) => url.includes(excludedUrl))
shouldExclude(url) ==
  \E i \in 1..Len(excludedUrls) : includes(url, excludedUrls[i])

\* next(req) with the request as given: no Authorization header
forwardUnmodified(r) == [r EXCEPT !.stage = "forwarded", !.header = NoToken]

\* the switchMap callback: getToken(), then next(req) without a token, else
\* next(req.clone(...)) with Authorization: Bearer <token>
afterRefreshStale(r, token) ==
  [r EXCEPT !.stage = "forwarded", !.header = r.tokenBefore, !.tokenAfter = token]
afterRefresh(r, token) ==
  IF token = NoToken
  THEN [forwardUnmodified(r) EXCEPT !.tokenAfter = token]
  ELSE [r EXCEPT !.stage = "forwarded", !.header = token, !.tokenAfter = token]

\* keycloakInterceptor(req, next) up to what it returns; excluded, session and
\* tokenBefore record what held when the request was intercepted
keycloakInterceptor(id, url) ==
  LET r == [id |-> id, url |-> url, excluded |-> shouldExclude(url),
            session |-> isLoggedIn, tokenBefore |-> getToken,
            minValidity |-> NoRefresh, stage |-> "intercepted",
            header |-> NoToken, tokenAfter |-> NoToken]
  IN IF ~enableAuth THEN forwardUnmodified(r)
     ELSE IF shouldExclude(url) THEN forwardUnmodified(r)
     ELSE IF ~isLoggedIn THEN forwardUnmodified(r)
     ELSE [r EXCEPT !.stage = "refreshing", !.minValidity = InterceptorMinValidity]

\* the requests whose updateToken(30) has not settled
Refreshing == {r \in requests : r.stage = "refreshing"}

\* a component or an effect sends a request through the interceptor
Intercept ==
  /\ pageAlive /\ nextReq <= MaxRequests
  /\ \E url \in RequestUrls :
       LET r == keycloakInterceptor(nextReq, url) IN
       /\ r.stage = "refreshing" => refreshRequests < MaxRefresh
       /\ requests' = requests \cup {r}
       /\ refreshRequests' = IF r.stage = "refreshing" THEN refreshRequests + 1
                             ELSE refreshRequests
  /\ nextReq' = nextReq + 1
  /\ UNCHANGED <<toastVars, usersVars, nav, errVars, appVars, initOutcome, excludedUrls, enableAuth, keycloakInstance,
                 kc, isAuthenticatedSubject, userSubject, initPc, profilePending,
                 intervalOn, handlersSet, refreshInFlight, redirecting, pageAlive,
                 refreshRejected, logoutCalls>>

\* the interceptor's updateToken(30) resolves true, with the token replaced or
\* still valid; the switchMap callback forwards the request
InterceptorRefreshResolve ==
  /\ pageAlive /\ kc.hasToken
  /\ \E r \in Refreshing, refreshed \in BOOLEAN :
       /\ kc' = IF refreshed THEN [kc EXCEPT !.token = @ + 1] ELSE kc
       /\ requests' = (requests \ {r}) \cup {afterRefresh(r, kc'.token)}
  /\ UNCHANGED <<toastVars, usersVars, nav, errVars, appVars, initOutcome, excludedUrls, nextReq, enableAuth,
                 keycloakInstance, isAuthenticatedSubject, userSubject, initPc,
                 profilePending, intervalOn, handlersSet, refreshInFlight, redirecting,
                 pageAlive, refreshRequests, refreshRejected, logoutCalls>>

\* the interceptor's updateToken(30) fails: the adapter may have dropped its
\* token, the catch block calls logout() and returns false; the switchMap
\* callback still runs
InterceptorRefreshReject ==
  /\ pageAlive
  /\ \E r \in Refreshing :
       /\ \/ kc' = KcSignedOut
          \/ /\ kc.hasToken
             /\ UNCHANGED kc
       /\ requests' = (requests \ {r}) \cup {afterRefresh(r, kc'.token)}
  /\ refreshRejected' = refreshRejected + 1
  /\ LogoutEffects
  /\ UNCHANGED <<toastVars, usersVars, nav, errVars, appVars, initOutcome, excludedUrls, nextReq, enableAuth,
                 keycloakInstance, initPc, profilePending, intervalOn, handlersSet,
                 refreshInFlight, pageAlive, refreshRequests>>

HttpInit ==
  /\ excludedUrls = EXCLUDED_URLS
  /\ requests = {}
  /\ nextReq = 1

\* the interceptor in a build whose exclusion list is one of ExcludedUrlLists
HttpInitConfigured ==
  /\ excludedUrls \in ExcludedUrlLists
  /\ requests = {}
  /\ nextReq = 1

\* ---------------------------------------------------------- error boundary

\* error.status of the failed responses: no connection, a status below 400,
\* the 4xx statuses getCategoryFromStatus names, one it does not, and two 5xx
\* statuses
Statuses == {0, 304, BadRequest, Unauthorized, Forbidden, 404, UnprocessableEntity,
             500, 503}

\* a thrown value that is not an HttpErrorResponse has no status
NoStatus == -1

ErrorCategory ==
  {"network", "authentication", "authorization", "validation", "server", "client", "unknown"}

ErrorSeverity == {"info", "warning", "error", "critical"}

\* what reaches a boundary: an HttpErrorResponse, a native Error, or any
\* other thrown value
RawErrors ==
  {[kind |-> "http", status |-> st] : st \in Statuses}
    \cup {[kind |-> "native", status |-> NoStatus], [kind |-> "other", status |-> NoStatus]}

\* getCategoryFromStatus(status)
getCategoryFromStatusClientFirst(status) ==
  IF status = 0 THEN "network"
  ELSE IF status = Unauthorized THEN "authentication"
  ELSE IF status = Forbidden THEN "authorization"
  ELSE IF status = UnprocessableEntity \/ status = BadRequest THEN "validation"
  ELSE IF status >= 400 THEN "client"
  ELSE IF status >= 500 THEN "server"
  ELSE "unknown"
getCategoryFromStatus(status) ==
  IF status = 0 THEN "network"
  ELSE IF status = Unauthorized THEN "authentication"
  ELSE IF status = Forbidden THEN "authorization"
  ELSE IF status = UnprocessableEntity \/ status = BadRequest THEN "validation"
  ELSE IF status >= 500 THEN "server"
  ELSE IF status >= 400 THEN "client"
  ELSE "unknown"

\* getSeverityFromStatus(status)
getSeverityFromStatus(status) ==
  IF status = 0 THEN "error"
  ELSE IF status = Unauthorized THEN "warning"
  ELSE IF status = Forbidden THEN "warning"
  ELSE IF status >= 500 THEN "critical"
  ELSE IF status >= 400 THEN "error"
  ELSE "info"

\* fromHttpError: code is `HTTP_${error.status}`
fromHttpError(error) ==
  [code |-> "HTTP", status |-> error.status,
   category |-> getCategoryFromStatus(error.status),
   severity |-> getSeverityFromStatus(error.status)]

\* fromNativeError
fromNativeError(error) ==
  [code |-> "CLIENT_ERROR", status |-> NoStatus, category |-> "client", severity |-> "error"]

\* fromUnknownError
fromUnknownError(error) ==
  [code |-> "UNKNOWN_ERROR", status |-> NoStatus, category |-> "unknown", severity |-> "error"]

\* createAppError(error, context)
createAppError(error) ==
  IF error.kind = "http" THEN fromHttpError(error)
  ELSE IF error.kind = "native" THEN fromNativeError(error)
  ELSE fromUnknownError(error)

\* no AppError was created
NoAppError == [code |-> "none", status |-> NoStatus, category |-> "none", severity |-> "none"]

\* a hook: shouldLog is absent, or accepts the severities error and critical
\* (as RemoteLoggingHook does), or throws; log returns or throws
Hooks == [shouldLog : {"absent", "severe", "throws"}, log : {"returns", "throws"}]

\* shouldLogToHook(hook, error) when shouldLog does not throw
shouldLogToHook(hook, severity) ==
  IF hook.shouldLog = "absent" THEN TRUE ELSE severity \in {"error", "critical"}

\* the arrays a build can provide under ERROR_LOGGING_HOOKS
HookLists == UNION {[1..n -> Hooks] : n \in 0..MaxHooks}

\* addToBuffer(entry): push, then shift when longer than maxBufferSize
addToBufferPop(buffer, entry) ==
  LET pushed == Append(buffer, entry)
  IN IF Len(pushed) > maxBufferSize THEN SubSeq(pushed, 1, Len(pushed) - 1) ELSE pushed
addToBuffer(buffer, entry) ==
  LET pushed == Append(buffer, entry)
  IN IF Len(pushed) > maxBufferSize THEN Tail(pushed) ELSE pushed

\* getRecentErrors(count): errorBuffer.slice(-(count || maxBufferSize))
getRecentErrors(count) ==
  LET limit == IF count = 0 THEN maxBufferSize ELSE count
      from == IF Len(errorBuffer) > limit THEN Len(errorBuffer) - limit + 1 ELSE 1
  IN SubSeq(errorBuffer, from, Len(errorBuffer))

\* the loop of log() from hook i on: shouldLogToHook(hook, error) is called
\* outside the try block, hook.log(entry) inside it
RECURSIVE runHooks(_, _, _)
runHooks(hs, i, acc) ==
  IF i > Len(hs) THEN acc
  ELSE IF hs[i].shouldLog = "throws" THEN [acc EXCEPT !.outcome = "threw"]
  ELSE IF ~shouldLogToHook(hs[i], acc.severity) THEN runHooks(hs, i + 1, acc)
  ELSE runHooks(hs, i + 1,
                [acc EXCEPT !.ran = @ \cup {i},
                            !.warned = IF hs[i].log = "throws" THEN @ \cup {i} ELSE @])

\* log(error, metadata): what the call did, entry being the number of the call
log(error, entry) ==
  LET buffer == addToBuffer(errorBuffer, entry)
  IN runHooks(hooks, 1,
              [entry |-> entry, severity |-> error.severity,
               buffered |-> (buffer # << >> /\ buffer[Len(buffer)] = entry),
               ran |-> {}, warned |-> {}, outcome |-> "returned"])

\* the state change of a log() call
DoLog(error) ==
  /\ logCount' = logCount + 1
  /\ errorBuffer' = addToBuffer(errorBuffer, logCount + 1)
  /\ lastLog' = log(error, logCount + 1)
  /\ UNCHANGED <<hooks, clearedAt>>

\* no log() call was made
NoLog == [entry |-> 0, severity |-> "none", buffered |-> FALSE,
          ran |-> {}, warned |-> {}, outcome |-> "none"]

\* req.url of the failed requests: path segments and the extension of the last
ErrorUrls == {[path |-> <<"api", "assets">>, ext |-> "none"],
              [path |-> <<"api", "report">>, ext |-> "json"],
              [path |-> <<"assets", "logo">>, ext |-> "none"]}

\* shouldExcludeUrl(url): /\/assets\//i or /\.json$/i matches
shouldExcludeUrl(url) ==
  \/ \E i \in 1..(Len(url.path) - 1) : url.path[i] = "assets"
  \/ url.ext = "json"

\* no url: the failure did not come through the interceptor
NoUrl == [path |-> << >>, ext |-> "none"]

\* the callback errorInterceptor passes to catchError, up to what it emits:
\* the raw error for an excluded url, else the AppError, or the exception
\* that escaped log()
errorInterceptorSilent(url, error, logged) ==
  IF shouldExcludeUrl(url)
  THEN [op |-> "interceptor", url |-> url, kind |-> error.kind, status |-> error.status,
        wrap |-> "none", appError |-> NoAppError, logged |-> FALSE, emitted |-> "none"]
  ELSE [op |-> "interceptor", url |-> url, kind |-> error.kind, status |-> error.status,
        wrap |-> "none", appError |-> createAppError(error), logged |-> TRUE,
        emitted |-> IF logged.outcome = "threw" THEN "hookError" ELSE "appError"]
errorInterceptor(url, error, logged) ==
  IF shouldExcludeUrl(url)
  THEN [op |-> "interceptor", url |-> url, kind |-> error.kind, status |-> error.status,
        wrap |-> "none", appError |-> NoAppError, logged |-> FALSE, emitted |-> "raw"]
  ELSE [op |-> "interceptor", url |-> url, kind |-> error.kind, status |-> error.status,
        wrap |-> "none", appError |-> createAppError(error), logged |-> TRUE,
        emitted |-> IF logged.outcome = "threw" THEN "hookError" ELSE "appError"]

\* a request fails and its error passes through errorInterceptor
InterceptError ==
  /\ logCount < MaxErrors
  /\ \E url \in ErrorUrls, st \in Statuses :
       LET error == [kind |-> "http", status |-> st]
           logged == log(createAppError(error), logCount + 1)
       IN /\ boundary' = errorInterceptor(url, error, logged)
          /\ IF boundary'.logged
             THEN DoLog(boundary'.appError)
             ELSE UNCHANGED <<hooks, errorBuffer, logCount, clearedAt, lastLog>>
  /\ UNCHANGED notErrVars

\* the error as thrown, or wrapped by zone.js in a rejection property, which
\* unwrapError() looks through
Wraps == {"none", "rejection"}

\* GlobalErrorHandler.handleError(error): an AppError (here the one the
\* interceptor emitted last) is logged as it is, anything else goes through
\* createAppError first; an exception that escapes log() escapes handleError
processError(wrap, error, isAppError) ==
  [op |-> "handler", url |-> NoUrl, kind |-> error.kind, status |-> error.status,
   wrap |-> wrap,
   appError |-> IF isAppError THEN boundary.appError ELSE createAppError(error),
   logged |-> TRUE, emitted |-> "none"]

HandleError ==
  /\ logCount < MaxErrors
  /\ \E wrap \in Wraps :
       \/ \E error \in RawErrors :
            /\ boundary' = processError(wrap, error, FALSE)
            /\ DoLog(boundary'.appError)
       \/ /\ boundary.emitted = "appError"
          /\ boundary' = processError(wrap, [kind |-> "appError", status |-> boundary.status],
                                       TRUE)
          /\ DoLog(boundary'.appError)
  /\ UNCHANGED notErrVars

\* logWithSeverity(error, severity) for an error created from a raw failure
LogWithSeverity ==
  /\ logCount < MaxLogs
  /\ \E severity \in {"warning"} :
       DoLog([createAppError([kind |-> "native", status |-> NoStatus])
                EXCEPT !.severity = severity])
  /\ UNCHANGED <<boundary, notErrVars>>

\* clearBuffer(): this.errorBuffer.length = 0
ClearBuffer ==
  /\ errorBuffer # << >>
  /\ errorBuffer' = << >>
  /\ clearedAt' = logCount
  /\ UNCHANGED <<hooks, logCount, lastLog, boundary, notErrVars>>

\* no failure has reached a boundary
NoBoundary == [op |-> "none", url |-> NoUrl, kind |-> "none", status |-> NoStatus,
               wrap |-> "none", appError |-> NoAppError, logged |-> FALSE,
               emitted |-> "none"]

\* the service as shipped: nothing is provided under ERROR_LOGGING_HOOKS
ErrInit ==
  /\ hooks = << >>
  /\ errorBuffer = << >>
  /\ logCount = 0
  /\ clearedAt = 0
  /\ lastLog = NoLog
  /\ boundary = NoBoundary

\* the service in a build that provides one of HookLists
ErrInitHooks ==
  /\ hooks \in HookLists
  /\ errorBuffer = << >>
  /\ logCount = 0
  /\ clearedAt = 0
  /\ lastLog = NoLog
  /\ boundary = NoBoundary

\* ---------------------------------------------------------- BaseApiService

\* strings are sequences of symbols: "/" is the slash, every other symbol
\* stands for a run of characters without a slash
\* environment.apiUrl: 'http://localhost:3000/api'
baseUrl == <<"http:", "/", "/", "localhost:3000", "/", "api">>

\* the endpoint arguments: every string of at most MaxPathLen symbols
Endpoints ==
  UNION {[1..n -> {"/", "users", "http:", "https:"}] : n \in 0..MaxPathLen}

\* String.prototype.startsWith
startsWith(str, prefix) ==
  Len(str) >= Len(prefix) /\ SubSeq(str, 1, Len(prefix)) = prefix

\* buildUrl(endpoint)
buildUrl(endpoint) ==
  IF startsWith(endpoint, <<"http:", "/", "/">>) \/ startsWith(endpoint, <<"https:", "/", "/">>)
  THEN endpoint
  ELSE LET normalizedEndpoint == IF startsWith(endpoint, <<"/">>) THEN endpoint
                                 ELSE <<"/">> \o endpoint
       IN baseUrl \o normalizedEndpoint

\* get / post / put / patch / delete: this.http.<method>(this.buildUrl(endpoint), ...)
ApiRequest ==
  /\ \E endpoint \in Endpoints :
       apiCall' = [made |-> TRUE, endpoint |-> endpoint, url |-> buildUrl(endpoint)]
  /\ UNCHANGED <<layout, themeState, localStorage, themeChange, router, notAppVars>>

\* ------------------------------------- LayoutService, theme slice, storage

\* JSON.stringify and JSON.parse of a boolean
JSONstringify(b) == IF b THEN "true" ELSE "false"
JSONparse(str) == str = "true"

\* the constructor: the signals take their initial values, then
\* loadPreferences() replaces them by the stored values, if any
loadPreferences(storage) ==
  LET savedCollapsed == storage["sidebarCollapsed"]
      savedTheme == storage["theme"]
  IN [sidebarCollapsed |-> IF savedCollapsed # Null THEN JSONparse(savedCollapsed)
                           ELSE FALSE,
      theme |-> IF savedTheme # Null /\ savedTheme \in {"light", "dark"}
                THEN savedTheme ELSE "light"]

\* themeReducer
themeReducer(state, action) ==
  CASE action.type = "Set Theme" -> [state EXCEPT !.mode = action.mode]
    [] action.type = "Toggle Theme" ->
         [state EXCEPT !.mode = IF state.mode = "light" THEN "dark" ELSE "light"]
    [] action.type = "Load Theme" -> [state EXCEPT !.isLoading = TRUE]
    [] action.type = "Load Theme Success" ->
         [state EXCEPT !.mode = action.mode, !.isLoading = FALSE]
    [] action.type = "Load Theme Failure" -> [state EXCEPT !.isLoading = FALSE]
    [] OTHER -> state

\* ThemeEffects.persistTheme$: the tap stores the mode the action carries
persistTheme(storage, action) ==
  IF action.type \in {"Set Theme", "Toggle Theme"} /\ "mode" \in DOMAIN action
  THEN [storage EXCEPT !["theme"] = action.mode]
  ELSE storage

\* ThemeEffects.loadTheme$: the success action the map returns
loadTheme(storage) ==
  LET savedTheme == storage["theme"]
      mode == IF savedTheme # Null THEN savedTheme ELSE "light"
  IN [type |-> "Load Theme Success", mode |-> mode]

\* toggleSidebarCollapse(): the signal is updated, then the negation of the
\* updated signal is stored
ToggleSidebarCollapse ==
  /\ layout' = [layout EXCEPT !.sidebarCollapsed = ~@]
  /\ localStorage' = [localStorage EXCEPT
                        !["sidebarCollapsed"] = JSONstringify(~layout'.sidebarCollapsed)]
  /\ UNCHANGED <<themeChange, themeState, apiCall, router, notAppVars>>

\* setTheme(theme)
setTheme(theme) ==
  /\ layout' = [layout EXCEPT !.theme = theme]
  /\ localStorage' = [localStorage EXCEPT !["theme"] = theme]
  /\ themeChange' = "LayoutService"
  /\ UNCHANGED <<themeState, apiCall, router, notAppVars>>

SetTheme == \E theme \in {"light", "dark"} : setTheme(theme)

\* toggleTheme()
ToggleTheme ==
  LET newTheme == IF layout.theme = "light" THEN "dark" ELSE "light"
  IN setTheme(newTheme)

\* store.dispatch(ThemeActions.setTheme({ mode })): the reducer runs, then
\* persistTheme$ sees the action
StoreSetTheme ==
  \E mode \in {"light", "dark", "auto"} :
    LET action == [type |-> "Set Theme", mode |-> mode]
    IN /\ themeState' = themeReducer(themeState, action)
       /\ localStorage' = persistTheme(localStorage, action)
       /\ themeChange' = "store"
       /\ UNCHANGED <<layout, apiCall, router, notAppVars>>

\* store.dispatch(ThemeActions.toggleTheme()): the reducer runs, then
\* persistTheme$ sees the action
StoreToggleTheme ==
  LET action == [type |-> "Toggle Theme"]
  IN /\ themeState' = themeReducer(themeState, action)
     /\ localStorage' = persistTheme(localStorage, action)
     /\ themeChange' = "store"
     /\ UNCHANGED <<layout, apiCall, router, notAppVars>>

\* store.dispatch(ThemeActions.loadTheme()): the reducer runs, loadTheme$ maps
\* the action to loadThemeSuccess, which is dispatched and reduced
StoreLoadTheme ==
  /\ themeState' = themeReducer(themeReducer(themeState, [type |-> "Load Theme"]),
                                loadTheme(localStorage))
  /\ themeChange' = "none"
  /\ UNCHANGED <<localStorage, layout, apiCall, router, notAppVars>>

\* the page is loaded again: the service and the store (initialThemeState) are
\* constructed anew over the storage the last run left
Restart ==
  /\ layout' = loadPreferences(localStorage)
  /\ themeState' = [mode |-> "light", isLoading |-> FALSE]
  /\ themeChange' = "none"
  /\ UNCHANGED <<localStorage, apiCall, router, notAppVars>>

\* ------------------------------------------------- Router, routes, guards

\* routes, matched in order: 'auth' (children 'login' and '' -> 'login', behind
\* guestGuard), '' (children 'dashboard', 'users' with '' and ':id',
\* '' -> 'dashboard', behind authGuard), '**' -> ''
routes(url) ==
  IF url = <<"auth", "login">> THEN [redirectTo |-> Null, route |-> "auth/login"]
  ELSE IF url = <<"auth">> THEN [redirectTo |-> <<"auth", "login">>, route |-> Null]
  ELSE IF url = <<"dashboard">> THEN [redirectTo |-> Null, route |-> "dashboard"]
  ELSE IF url # << >> /\ Head(url) = "users" /\ Len(url) <= 2
  THEN [redirectTo |-> Null, route |-> "users"]
  ELSE IF url = << >> THEN [redirectTo |-> <<"dashboard">>, route |-> Null]
  ELSE [redirectTo |-> << >>, route |-> Null]

\* guestGuard: the /dashboard UrlTree for a logged-in user, true otherwise
guestGuardAlways == [result |-> "redirect", navigate |-> <<"dashboard">>]
guestGuard ==
  IF isLoggedIn THEN [result |-> "redirect", navigate |-> <<"dashboard">>]
  ELSE [result |-> "allow", navigate |-> << >>]

\* router.navigateByUrl(url), once the initializer is done; a URL is the
\* sequence of its path segments, at most MaxUrlLen of them
Navigate ==
  /\ pageAlive /\ initPc = "done"
  /\ router.phase # "navigating"
  /\ nextId <= MaxShows
  /\ \E url \in UNION {[1..n -> {"auth", "login", "dashboard", "users", "other"}] :
                       n \in 0..MaxUrlLen} :
       router' = [phase |-> "navigating", url |-> url, trail |-> <<url>>, route |-> Null]
  /\ UNCHANGED <<toastVars, usersVars, authVars, nav, httpVars, errVars, apiCall,
                 layout, themeState, localStorage, themeChange>>

\* the router processes the current URL: it applies a redirectTo, or runs the
\* guard of the matched route and activates the route or follows the UrlTree
\* (authGuard: a warning toast and /auth/login)
RouterStep ==
  /\ pageAlive /\ router.phase = "navigating"
  /\ Len(router.trail) <= MaxHops
  /\ LET m == routes(router.url)
         a == authGuardToast(router.url)
         g == IF m.route = "auth/login" THEN guestGuard
              ELSE IF a.result = "allow" THEN [result |-> "allow", navigate |-> << >>]
              ELSE [result |-> "redirect", navigate |-> <<"auth", "login">>]
     IN IF m.route = Null
        THEN /\ router' = [router EXCEPT !.url = m.redirectTo,
                                         !.trail = Append(@, m.redirectTo)]
             /\ UNCHANGED toastVars
        ELSE /\ router' = IF g.result = "allow"
                          THEN [router EXCEPT !.phase = "activated", !.route = m.route]
                          ELSE [router EXCEPT !.url = g.navigate,
                                              !.trail = Append(@, g.navigate)]
             /\ IF m.route # "auth/login" /\ a.toast
                THEN DoShow("warning", NoDuration)
                ELSE UNCHANGED toastVars
  /\ UNCHANGED <<usersVars, authVars, nav, httpVars, errVars, apiCall,
                 layout, themeState, localStorage, themeChange>>

\* no request made through the service, a fresh browser profile, no navigation
AppInit ==
  /\ apiCall = [made |-> FALSE, endpoint |-> << >>, url |-> << >>]
  /\ localStorage = [k \in {"sidebarCollapsed", "theme"} |-> Null]
  /\ layout = loadPreferences(localStorage)
  /\ themeState = [mode |-> "light", isLoading |-> FALSE]
  /\ themeChange = "none"
  /\ router = [phase |-> "idle", url |-> << >>, trail |-> << >>, route |-> Null]

Init ==
  ToastInit /\ UsersInit /\ AuthInit /\ nav = NoNav /\ HttpInit /\ ErrInit /\ AppInit

NextToast ==
  \/ ToastShow
  \/ ToastSuccess
  \/ ToastError
  \/ ToastWarning
  \/ ToastInfo
  \/ ToastDismiss
  \/ ToastDismissAll
  \/ ToastPause
  \/ ToastResume
  \/ ToastConfigure
  \/ TimerFire

SpecToast == Init /\ [][NextToast]_vars

\* the browser runs every pending setTimeout callback that is not cancelled:
\* a timer that stays pending fires
SpecToastFair == Init /\ [][NextToast]_vars /\ WF_vars(TimerFire)

NextUsers ==
  \/ LoadUsers
  \/ AddUser
  \/ UpdateUser
  \/ DeleteUser
  \/ SelectUser
  \/ ClearSelection
  \/ EffectSuccess
  \/ EffectFailure

SpecUsers == Init /\ [][NextUsers]_vars

NextAuth ==
  \/ InitializeKeycloak
  \/ InitResolve
  \/ InitReject
  \/ ProfileSettle
  \/ IntervalTick
  \/ TokenExpired
  \/ RefreshResolve
  \/ RefreshReject
  \/ UserLogout
  \/ AuthError
  \/ AuthLogout
  \/ PageUnload

SpecAuth == Init /\ [][NextAuth]_vars

NextGuard ==
  \/ InitializeKeycloak
  \/ InitResolve
  \/ InitReject
  \/ RoleGuard
  \/ AuthGuardKeycloak
  \/ AuthGuardToast
  \/ TimerFire
  \/ PageUnload

SpecGuard == Init /\ [][NextGuard]_vars

NextHttp ==
  \/ InitializeKeycloak
  \/ InitResolve
  \/ InitReject
  \/ Intercept
  \/ InterceptorRefreshResolve
  \/ InterceptorRefreshReject
  \/ TokenExpired
  \/ RefreshResolve
  \/ RefreshReject
  \/ AuthLogout
  \/ PageUnload

InitHttp ==
  /\ ToastInit /\ UsersInit /\ AuthInit /\ nav = NoNav
  /\ HttpInitConfigured /\ ErrInit /\ AppInit

SpecHttp == InitHttp /\ [][NextHttp]_vars

NextErrors ==
  \/ InterceptError
  \/ HandleError
  \/ ClearBuffer

\* a build with authentication enabled that provides logging hooks
InitErrors ==
  /\ ToastInit /\ UsersInit /\ AuthInit /\ enableAuth
  /\ nav = NoNav /\ HttpInit /\ ErrInitHooks /\ AppInit

SpecErrors == InitErrors /\ [][NextErrors]_vars

NextBuffer ==
  \/ LogWithSeverity
  \/ ClearBuffer

SpecBuffer == Init /\ [][NextBuffer]_vars

SpecApi == Init /\ [][ApiRequest]_vars

NextLayout ==
  \/ ToggleSidebarCollapse
  \/ SetTheme
  \/ ToggleTheme
  \/ StoreSetTheme
  \/ StoreToggleTheme
  \/ StoreLoadTheme
  \/ Restart

SpecLayout == Init /\ [][NextLayout]_vars

NextRouter ==
  \/ InitializeKeycloak
  \/ InitResolve
  \/ InitReject
  \/ Navigate
  \/ RouterStep

\* the router processes every navigation it has started
SpecRouter == Init /\ [][NextRouter]_vars /\ WF_vars(RouterStep)

\* ------------------------------------------------------------------ claims

\* C1: when a provider token refresh rejects, that failure forces logout once
\* and leaves the session unauthenticated, and after a rejected refresh no
\* further refresh request is issued to the provider.
C1_FailClosedNoRetry ==
  [][/\ (refreshRejected' = refreshRejected + 1)
          => (logoutCalls' = logoutCalls + 1 /\ ~isAuthenticatedSubject')
     /\ (refreshRejected >= 1) => (refreshRequests' = refreshRequests)]_vars

\* ids of the records in the list
ListIds(ns) == {ns[i].id : i \in 1..Len(ns)}

\* C2: in every reachable state the notification list holds at most
\* config.maxToasts records.
C2_ListWithinCapacity == Len(notifications) <= config.maxToasts

\* C3: a show() call made when the list holds exactly N = maxToasts >= 1 records
\* leaves exactly N records, the new one at the head followed by the N-1 newest
\* old ones; the oldest record is evicted, its timer is cancelled and no timer
\* callback for the evicted id stays pending.
C3_EvictionCancelsTimer ==
  [][(/\ nextId' = nextId + 1
      /\ config.maxToasts >= 1
      /\ Len(notifications) = config.maxToasts)
     => LET evicted == notifications[Len(notifications)].id
        IN /\ Len(notifications') = config.maxToasts
           /\ notifications'[1].id = nextId
           /\ Tail(notifications') = SubSeq(notifications, 1, Len(notifications) - 1)
           /\ evicted \notin ListIds(notifications')
           /\ evicted \notin DOMAIN timeoutMap'
           /\ \A t \in timers' : t.id # evicted]_vars

\* the triggering actions whose call is still subscribed
InFlight(t) == \E r \in inner[trig[t].kind] : r.seq = t

LoadedOk == {t \in DOMAIN trig : trig[t].kind = "load" /\ trig[t].result = "success"}

C6_OptimisticDelete ==
  [][/\ \A r \in inner'["delete"] :
         (nextSeq' = nextSeq + 1 /\ r.seq = nextSeq)
           => \A i \in 1..Len(usersState'.users) : usersState'.users[i].id # r.arg
     /\ \A r \in inner["delete"] :
         (r \notin inner'["delete"] /\ trig'[r.seq].result = "failure")
           => /\ usersState'.error # Null
              /\ (trig[r.seq].present
                    => \E i \in 1..Len(usersState'.users) :
                          usersState'.users[i].id = r.arg)]_vars

\* the set of the roles in a route's list
RoleSet(roles) == {roles[i] : i \in 1..Len(roles)}

\* the last evaluation is one of roleGuard for a logged-in user and a route
\* with a non-empty role list
RoleCheckMade ==
  /\ nav.guard = "role"
  /\ nav.loggedIn
  /\ nav.data.hasRoles
  /\ Len(nav.data.roles) > 0

\* C7: for a logged-in user and a route with a non-empty role list whose
\* requireAll is not true, roleGuard allows exactly when the user holds at
\* least one of the required roles, and denies otherwise.
C7_AnySemantics ==
  (RoleCheckMade /\ nav.data.requireAll # "true")
    => /\ nav.result \in {"allow", "deny"}
       /\ nav.result = "allow" <=> (RoleSet(nav.data.roles) \cap nav.userRoles # {})

C7_Witness ==
  /\ RoleCheckMade
  /\ nav.data.requireAll # "true"
  /\ nav.data.roles = <<"A", "B">>
  /\ nav.userRoles = {"B"}
  /\ nav.result = "allow"

\* C8: for a logged-in user and a route with requireAll = true, roleGuard
\* allows exactly when the user's roles include every required role, and
\* denies otherwise.
C8_AllSemantics ==
  (RoleCheckMade /\ nav.data.requireAll = "true")
    => /\ nav.result \in {"allow", "deny"}
       /\ nav.result = "allow" <=> (RoleSet(nav.data.roles) \subseteq nav.userRoles)

C8_Witness ==
  /\ RoleCheckMade
  /\ nav.data.requireAll = "true"
  /\ nav.data.roles = <<"A", "B">>
  /\ nav.userRoles = {"A"}
  /\ nav.result = "deny"

\* C9: roleGuard denies a user who is not logged in and requests the login
\* redirect with the attempted URL as return target, evaluating no role; a
\* logged-in user who fails the role check is denied and navigated to
\* /unauthorized, with no login redirect.
C9_RoleGuardRedirects ==
  nav.guard = "role"
    => /\ ~nav.loggedIn
            => /\ nav.result = "deny"
               /\ nav.login = <<Origin, nav.url>>
               /\ ~nav.evaluated
               /\ nav.navigate = Null
       /\ (nav.loggedIn /\ nav.result # "allow")
            => /\ nav.result = "deny"
               /\ nav.navigate = "/unauthorized"
               /\ nav.login = NoLogin

\* C10: authGuard allows a logged-in user; otherwise it does not allow, it
\* redirects to login and the attempted path is recorded as the return target.
C10_AuthGuardRecordsPath ==
  nav.guard \in {"authKeycloak", "authToast"}
    => /\ nav.loggedIn => nav.result = "allow"
       /\ ~nav.loggedIn
            => /\ nav.result \in {"deny", "redirect"}
               /\ (nav.login # NoLogin \/ nav.navigate = "/auth/login")
               /\ nav.login = <<Origin, nav.url>>

\* --------------------------------------------------------------------- C11
\* C11: a request gets a refresh attempt exactly when its URL is not excluded
\* and a session is active when it is intercepted, and the attempt is
\* updateToken(30); it is forwarded only once the refresh has settled, with
\* Authorization: Bearer <token> built from the token current after the refresh,
\* or unmodified when there is no token then; every other request is forwarded
\* at once without an Authorization header.
C11_InterceptorInjectsToken ==
  \A r \in requests :
    /\ (r.minValidity # NoRefresh) <=> (~r.excluded /\ r.session)
    /\ r.minValidity # NoRefresh => r.minValidity = InterceptorMinValidity
    /\ r.minValidity = NoRefresh => (r.stage = "forwarded" /\ r.header = NoToken)
    /\ r.stage = "refreshing" => r.header = NoToken
    /\ (r.minValidity # NoRefresh /\ r.stage = "forwarded") => r.header = r.tokenAfter

\* a request intercepted with a session is forwarded with a token that the
\* refresh replaced, another is forwarded unmodified because it is excluded
C11_Witness ==
  /\ \E r \in requests :
       /\ r.stage = "forwarded" /\ r.minValidity = InterceptorMinValidity
       /\ r.header # NoToken /\ r.header # r.tokenBefore
  /\ \E r \in requests : r.excluded /\ r.session /\ r.stage = "forwarded"

\* --------------------------------------------------------------------- C12
\* C12: no KeycloakService operation called by a guard lets an exception
\* escape, whatever the session state: a guard evaluation always ends with a
\* result (allow, deny or a redirect) and never by throwing.
C12_NoExceptionEscapes ==
  nav.guard # "none" => nav.result # "throw"

\* --------------------------------------------------------------------- C13
\* C13: when the handshake of init() fails, init() returns false instead of
\* throwing, and from then on the session is unauthenticated: the
\* isAuthenticated subject is false, no user profile is loaded or being
\* loaded, and neither the refresh interval nor the adapter handlers are set.
C13_InitFailsSoft ==
  initOutcome.handshake = "rejected" =>
    /\ initOutcome.returned = "false"
    /\ ~isAuthenticatedSubject
    /\ userSubject = Null /\ ~profilePending
    /\ ~intervalOn /\ ~handlersSet
    /\ refreshRequests = 0

\* the handshake was rejected and a logout was attempted afterwards
C13_Witness ==
  initOutcome.handshake = "rejected" /\ initPc = "done" /\ logoutCalls > 0

\* --------------------------------------------------------------------- C14
\* C14: dismiss(id) is idempotent: in every reachable state and for every id a
\* caller can hold, shown or never shown, a second dismiss(id) leaves the
\* list, the timer map and the pending timers as the first call left them.
C14_DismissIdempotent ==
  \A id \in KnownIds :
    LET once == dismiss(ToastState, id)
    IN dismiss(once, id) = once

\* a record is listed next to another one, with a pending timer the map holds
\* and a second pending timer that resume() left behind: the first dismiss
\* changes the list, the map and the timers
C14_Witness ==
  \E id \in KnownIds :
    /\ Len(notifications) > 1
    /\ id \in ListIds(notifications) /\ id \in DOMAIN timeoutMap
    /\ \E t \in timers : t.id = id /\ t.h # timeoutMap[id]
    /\ dismiss(ToastState, id).timers # timers
    /\ dismiss(dismiss(ToastState, id), id) = dismiss(ToastState, id)

\* --------------------------------------------------------------------- C15
\* C15: in every reachable state and for every id, once dismiss(id) has
\* returned the list holds no record with that id and no removal timer for
\* that id is pending, whether the record was timed, paused, resumed or
\* persistent.
C15_DismissRemovesAll ==
  \A id \in KnownIds :
    LET d == dismiss(ToastState, id)
    IN /\ \A i \in 1..Len(d.notifications) : d.notifications[i].id # id
       /\ id \notin DOMAIN d.timeoutMap
       /\ \A t \in d.timers : t.id # id

\* --------------------------------------------------------------------- C16
\* C16: a record that a show() call creates has the duration of the explicit
\* override when the caller supplied one, and otherwise the default of its
\* type: the configured default for success, warning and info, and a longer
\* one for error.
C16_PerSeverityDefault ==
  [][(nextId' = nextId + 1 /\ notifications' # << >> /\ Head(notifications').id = nextId) =>
       LET n == Head(notifications')
       IN n.duration \notin (OptDurations \ {NoDuration}) =>
            IF n.type = "error" THEN n.duration > config.defaultDuration
            ELSE n.duration = config.defaultDuration]_vars

\* --------------------------------------------------------------------- C17
\* C17: whatever a registered hook does when it is run for an entry, log()
\* returns normally with the entry buffered, and every other hook that is to
\* be run (shouldLog absent or true) has had its log(entry) called.
C17_HooksIsolated ==
  lastLog.outcome # "none" =>
    /\ lastLog.outcome = "returned"
    /\ lastLog.buffered
    /\ \A i \in 1..Len(hooks) :
         (\/ hooks[i].shouldLog = "absent"
          \/ hooks[i].shouldLog = "severe" /\ lastLog.severity \in {"error", "critical"})
           => i \in lastLog.ran

\* --------------------------------------------------------------------- C18
\* C18: for every failed request the interceptor has created the
\* AppError and logged it, and then emits an error to the caller.
C18_AlwaysEnrichedAndRethrown ==
  boundary.op = "interceptor" =>
    /\ boundary.emitted # "none"
    /\ boundary.appError # NoAppError
    /\ boundary.logged

\* C18 as amended: for every failed request the interceptor emits an error to
\* the caller, never nothing. For a url under /assets/ or ending in .json it
\* is the raw error, not enriched and not logged; for any other url the
\* AppError is created and its entry buffered first, and the AppError is
\* emitted, or the exception of a hook when one escaped log().
C18_NeverSwallows ==
  boundary.op = "interceptor" =>
    /\ boundary.emitted \in {"raw", "appError", "hookError"}
    /\ IF shouldExcludeUrl(boundary.url)
       THEN /\ boundary.emitted = "raw"
            /\ ~boundary.logged /\ boundary.appError = NoAppError
       ELSE /\ boundary.logged /\ lastLog.buffered
            /\ boundary.appError.category \in ErrorCategory
            /\ boundary.appError.status = boundary.status
            /\ boundary.emitted =
                 IF lastLog.outcome = "threw" THEN "hookError" ELSE "appError"

\* after a logged failure, a request for an excluded url fails and its raw
\* error is emitted
C18_Witness ==
  /\ boundary.op = "interceptor" /\ shouldExcludeUrl(boundary.url)
  /\ boundary.emitted = "raw" /\ logCount > 0

\* --------------------------------------------------------------------- C19
\* C19: the buffer holds at most 100 entries, and they are the entries of the
\* most recent log() calls since the last clearBuffer(), in arrival order: a
\* log() call on a full buffer drops exactly the oldest entry.
C19_BoundedFifo ==
  LET n == IF logCount - clearedAt > maxBufferSize THEN maxBufferSize
           ELSE logCount - clearedAt
  IN /\ Len(errorBuffer) <= maxBufferSize
     /\ errorBuffer = [i \in 1..n |-> logCount - n + i]
     /\ getRecentErrors(0) = errorBuffer

\* more than 100 log() calls since the buffer was last cleared: the oldest
\* entry has been evicted
C19_Witness ==
  /\ Len(errorBuffer) = maxBufferSize
  /\ logCount - clearedAt > maxBufferSize
  /\ errorBuffer[1] = logCount - maxBufferSize + 1

\* --------------------------------------------------------------------- C20
\* C20: every AppError has one of the seven categories; status 0 is network, 401 authentication, 403
\* authorization, 400 and 422 validation, 5xx server; a non-HTTP Error is
\* client; everything else, any other status included, is unknown.
C20_ClosedTaxonomy ==
  boundary.appError # NoAppError =>
    LET st == boundary.status
        c == boundary.appError.category
    IN /\ c \in ErrorCategory
       /\ boundary.kind = "native" => c = "client"
       /\ boundary.kind = "other" => c = "unknown"
       /\ boundary.kind \in {"http", "appError"} =>
            c = (IF st = 0 THEN "network"
                 ELSE IF st = 401 THEN "authentication"
                 ELSE IF st = 403 THEN "authorization"
                 ELSE IF st \in {400, 422} THEN "validation"
                 ELSE IF st \in 500..599 THEN "server"
                 ELSE "unknown")

\* C20 as amended: every AppError has one of the seven categories; status 0
\* is network, 401 authentication, 403 authorization, 400 and 422 validation,
\* 5xx server, every other status of 400 or above (404, 409, ...) client and
\* every other status unknown; a non-HTTP Error is client and any other
\* thrown value unknown.
C20_TaxonomyWithClientStatuses ==
  boundary.appError # NoAppError =>
    LET st == boundary.status
        c == boundary.appError.category
    IN /\ c \in ErrorCategory
       /\ boundary.kind = "native" => c = "client"
       /\ boundary.kind = "other" => c = "unknown"
       /\ boundary.kind \in {"http", "appError"} =>
            c = (IF st = 0 THEN "network"
                 ELSE IF st = 401 THEN "authentication"
                 ELSE IF st = 403 THEN "authorization"
                 ELSE IF st \in {400, 422} THEN "validation"
                 ELSE IF st \in 500..599 THEN "server"
                 ELSE IF st \in 400..499 THEN "client"
                 ELSE "unknown")

\* a failed request with status 404 has been normalized to category client
C20_Witness ==
  /\ boundary.op = "interceptor" /\ boundary.status = 404
  /\ boundary.appError.category = "client"

\* --------------------------------------------------------------------- C21
\* the endpoint without its leading slashes
RECURSIVE StripLeadingSlashes(_)
StripLeadingSlashes(str) ==
  IF str # << >> /\ Head(str) = "/" THEN StripLeadingSlashes(Tail(str)) ELSE str

\* C21: buildUrl returns an endpoint that starts with http:// or https://
\* unchanged, and for every other endpoint the base, exactly one slash, and
\* the endpoint without its leading slashes.
C21_BuildUrlNormalizes ==
  apiCall.made =>
    IF \/ startsWith(apiCall.endpoint, <<"http:", "/", "/">>)
       \/ startsWith(apiCall.endpoint, <<"https:", "/", "/">>)
    THEN apiCall.url = apiCall.endpoint
    ELSE apiCall.url = baseUrl \o <<"/">> \o StripLeadingSlashes(apiCall.endpoint)

C23_ThemePersisted ==
  /\ themeChange = "LayoutService" => localStorage["theme"] = layout.theme
  /\ themeChange = "store" => localStorage["theme"] = themeState.mode

\* --------------------------------------------------------------------- C30
\* C30: once toggleSidebarCollapse has stored a value, the value under the
\* sidebarCollapsed key is the in-memory sidebarCollapsed state, so that a
\* restart restores the collapsed state the user last saw.
C30_CollapsePersisted ==
  localStorage["sidebarCollapsed"] # Null =>
    localStorage["sidebarCollapsed"] = JSONstringify(layout.sidebarCollapsed)

\* --------------------------------------------------------------------- C24
\* C24: every pending removal timer is the one the lookup table records under
\* its notification id, so at most one removal timer per id is pending.
C24_OneTimerPerId ==
  /\ \A t \in timers : t.id \in DOMAIN timeoutMap /\ timeoutMap[t.id] = t.h
  /\ \A t1, t2 \in timers : t1.id = t2.id => t1 = t2

\* --------------------------------------------------------------------- C25
\* C25: a token-refresh request is issued to the provider only from the
\* authenticated state: never while the session is uninitialized, checking
\* or unauthenticated.
C25_RefreshOnlyWhenAuthenticated ==
  [][refreshRequests' > refreshRequests =>
       initPc = "done" /\ isAuthenticatedSubject]_vars

InList(id) == \E i \in 1..Len(notifications) : notifications[i].id = id
Timed(id) ==
  \E i \in 1..Len(notifications) : notifications[i].id = id /\ notifications[i].duration > 0

\* pause(id) was the last of show, pause and resume for the id: the lookup
\* table holds no handle for it
Paused(id) == Timed(id) /\ id \notin DOMAIN timeoutMap

\* the step is a timer callback that takes the notification off the list
RemovedByTimer(id) ==
  /\ InList(id) /\ ~InList(id)'
  /\ nextId' = nextId
  /\ \E t \in timers \ timers' : t.id = id

\* C27: when every pause is eventually followed by a resume, every
\* notification shown with a positive duration eventually leaves the list
\* under fair timer firing, and a paused notification is not removed by a timer.
C27_TimedToastsExpire ==
  /\ (\A id \in 1..MaxShows : []<>~Paused(id)) =>
       (\A id \in 1..MaxShows : Timed(id) ~> ~InList(id))
  /\ [][\A id \in 1..MaxShows : Paused(id) => ~RemovedByTimer(id)]_vars

\* --------------------------------------------------------------------- C28
\* no URL occurs twice in the sequence
NoRepeat(trail) ==
  \A i, j \in 1..Len(trail) : trail[i] = trail[j] => i = j

\* C28: for a fixed login state every navigation reaches an activated route
\* after finitely many redirects, and no navigation comes back to a URL it
\* has already been redirected from.
C28_RedirectsSettle ==
  /\ [](NoRepeat(router.trail) /\ Len(router.trail) <= 4)
  /\ (router.phase = "navigating") ~> (router.phase = "activated")

\* a logged-out navigation to an unknown URL went through the wildcard, the
\* default child and authGuard and was activated on the login page
C28_Witness ==
  /\ ~isLoggedIn
  /\ router.phase = "activated" /\ router.route = "auth/login"
  /\ router.trail = <<<<"other">>, << >>, <<"dashboard">>, <<"auth", "login">> >>

\* --------------------------------------------------------------------- C29
\* the step reduces the deleteUserSuccess of the request
DeleteSucceeds(req) ==
  /\ req \in inner["delete"] /\ req \notin inner'["delete"]
  /\ trig'[req.seq].result = "success"
  /\ trig'[req.seq].outcomes = trig[req.seq].outcomes + 1

\* C29: after deleteUserSuccess({userId}) is reduced, users holds the users
\* with another id in their original order, selectedUserId is null if it was
\* userId and unchanged otherwise, and selectSelectedUser does not return a
\* user with that id.
C29_DeleteRemovesUser ==
  [][\A userId \in UserIds : \A req \in inner["delete"] :
       (req.arg = userId /\ DeleteSucceeds(req)) =>
         /\ \A i \in 1..Len(usersState'.users) : usersState'.users[i].id # userId
         /\ usersState'.users = SelectSeq(usersState.users, LAMBDA u : u.id # userId)
         /\ usersState'.selectedUserId =
              (IF usersState.selectedUserId = userId THEN Null
               ELSE usersState.selectedUserId)
         /\ selectSelectedUser(usersState').id # userId]_vars

\* a user that was in the list has been deleted, another user is still in it
\* and is the selected one
C29_Witness ==
  /\ \E t \in DOMAIN trig :
       trig[t].kind = "delete" /\ trig[t].result = "success" /\ trig[t].present
  /\ usersState.users # << >>
  /\ selectSelectedUser(usersState).id # Null

====
